---------------------------- MODULE Spec2Model ----------------------------
(***************************************************************************)
(* A model of two data structures of the repository:                       *)
(*   - the intrusive skip list of kernel/skip_lists.c (skiplist_insert and *)
(*     skiplist_del_init over struct skiplist_node), and                   *)
(*   - the sparse radix tree (sradix_tree_enter, sradix_tree_extend,       *)
(*     sradix_tree_delete_from_leaf, sradix_tree_shrink,                   *)
(*     sradix_tree_lookup and sradix_tree_next),                           *)
(* and of the upgradeable read/write lock of include/linux/urwlock.h.      *)
(* Each has its own specification (SpecSkip, SpecRadix, SpecUrw); the      *)
(* variables of the others stay at their initial values.                   *)
(***************************************************************************)
EXTENDS Integers, Sequences, FiniteSets, TLC

VARIABLES
    \* ---- skip list (struct skiplist_node, indexed by node id; 0 is the header)
    level,      \* level[n]   : node->level
    next,       \* next[n][k] : node->next[k]
    prev,       \* prev[n][k] : node->prev[k]
    key,        \* key[n]     : node->key
    spinning,   \* TRUE once a skiplist_insert call is in a search loop that never exits
    inserted,   \* history: the resident nodes, in the order of their insertion
    lastop,     \* history: the last skip list call and its arguments; of an
                \* insert also the header's level and the links before it
                \* (was), of a delete also whether the node was resident
                \* and whether the call before it was the insert of the node
    \* ---- sparse radix tree (struct sradix_tree_root and its nodes)
    tree,       \* the root's fields, the node memory and the call's outcome
    walk,       \* a caller's iteration over the tree with sradix_tree_next
    \* ---- upgradeable read/write lock (struct urwlock) and its callers
    lock,       \* urw->lock: the thread that holds the spinlock, or 0
    rwlock,     \* urw->rwlock: the thread that holds it for writing, or 0,
                \* and the threads that hold it for reading
    pc,         \* pc[t]: where thread t is in its calls on the lock
    \* ---- randomLevel of the skip list that counts its entries
    drawn       \* a call of randomLevel: its arguments and what it returned

skipVars == <<level, next, prev, key, spinning, inserted, lastop>>

radixVars == <<tree, walk>>

urwVars == <<lock, rwlock, pc>>

levelVars == <<drawn>>

vars == <<level, next, prev, key, spinning, inserted, lastop, tree, walk,
          lock, rwlock, pc, drawn>>

-----------------------------------------------------------------------------
(* Skip list                                                               *)

NUM_SKIPLIST_LEVEL == 16

\* The number of caller-owned nodes besides the header.
MaxSkipNodes == 3

\* The keys the callers use: two ordinary keys, so that nodes meet with
\* equal keys and with keys in either order.
SkipKeys == {1, 2}

\* The largest level the callers select for a node.
MaxSelLevel == 2

\* ~0x00 converted to the u64 keyType is 2^64 - 1, the largest key there is.
\* Keys are only ever compared, so the key type is modelled by its order:
\* TLC's largest integer stands for the largest u64.
KeyInit == 2147483647

head == 0

SkipNodes == 1..MaxSkipNodes

\* The nodes of the lists that are filled under the three level policies:
\* from 4 entries on randomLevel(entries, randseed) selects levels above 0.
MaxPolicyNodes == 4

PolicyNodes == 1..MaxPolicyNodes

\* The header and every node there is.
SkipAll ==
    0..(IF MaxPolicyNodes > MaxSkipNodes THEN MaxPolicyNodes
        ELSE MaxSkipNodes)

Levels == 0..(NUM_SKIPLIST_LEVEL - 1)

SelLevels == {lv \in Levels : lv <= MaxSelLevel}

\* INIT_SKIPLIST_NODE, as the new values of the four fields.
INIT_SKIPLIST_NODE(n, lv, nx, pv, ky) ==
    [level |-> [lv EXCEPT ![n] = 0],
     next  |-> [nx EXCEPT ![n] = [k \in Levels |-> n]],
     prev  |-> [pv EXCEPT ![n] = [k \in Levels |-> n]],
     key   |-> [ky EXCEPT ![n] = KeyInit]]

skiplist_empty(h) == next[h][0] = h

\* ScanLevel with the scan condition q->key < key.
RECURSIVE ScanLevelStrict(_, _, _)
ScanLevelStrict(p, k, ky) ==
    LET q == next[p][k] IN
    IF key[q] < ky THEN ScanLevelStrict(q, k, ky) ELSE p

\* The inner while loop of skiplist_insert at level k, from p: the last node
\* before the first node whose key is greater than ky.
RECURSIVE ScanLevel(_, _, _)
ScanLevel(p, k, ky) ==
    LET q == next[p][k] IN
    IF key[q] <= ky THEN ScanLevel(q, k, ky) ELSE p

\* The do-while search loop of skiplist_insert: update[k] for k down to 0.
RECURSIVE SearchFrom(_, _, _, _)
SearchFrom(p, k, ky, update) ==
    LET p2 == ScanLevel(p, k, ky)
        u2 == [update EXCEPT ![k] = p2]
    IN IF k = 0 THEN u2 ELSE SearchFrom(p2, k - 1, ky, u2)

\* SpliceAt without the store to q->next[k]->prev[k].
SpliceAtNoBack(lk, q, p, k) ==
    LET n1 == [lk.next EXCEPT ![q][k] = lk.next[p][k]]
        n2 == [n1 EXCEPT ![p][k] = q]
        p1 == [lk.prev EXCEPT ![q][k] = p]
    IN [next |-> n2, prev |-> p1]

\* One round of the splice loop, on the pair of link arrays.
SpliceAt(lk, q, p, k) ==
    LET n1 == [lk.next EXCEPT ![q][k] = lk.next[p][k]]
        n2 == [n1 EXCEPT ![p][k] = q]
        p1 == [lk.prev EXCEPT ![q][k] = p]
        p2 == [p1 EXCEPT ![n2[q][k]][k] = q]
    IN [next |-> n2, prev |-> p2]

\* SpliceFrom that links the node after update[k] of its top level at every
\* level below as well.
RECURSIVE SpliceFromTop(_, _, _, _)
SpliceFromTop(lk, q, update, k) ==
    LET lk2 == SpliceAt(lk, q, update[k], k)
    IN IF k = 0 THEN lk2
       ELSE SpliceFromTop(lk2, q, [update EXCEPT ![k - 1] = update[k]],
                          k - 1)

\* The do-while splice loop of skiplist_insert from level k down to 0.
RECURSIVE SpliceFrom(_, _, _, _)
SpliceFrom(lk, q, update, k) ==
    LET lk2 == SpliceAt(lk, q, update[k], k)
    IN IF k = 0 THEN lk2 ELSE SpliceFrom(lk2, q, update, k - 1)

\* UnlinkAt without the store to node->next[l]->prev[l].
UnlinkAtNoPrev(lk, n, l) ==
    LET n1 == [lk.next EXCEPT ![lk.prev[n][l]][l] = lk.next[n][l]]
    IN [next |-> n1, prev |-> lk.prev]

\* One round of the unlink loop of skiplist_del_init.
UnlinkAt(lk, n, l) ==
    LET n1 == [lk.next EXCEPT ![lk.prev[n][l]][l] = lk.next[n][l]]
        p1 == [lk.prev EXCEPT ![n1[n][l]][l] = lk.prev[n][l]]
    IN [next |-> n1, prev |-> p1]

\* UnlinkUpTo with the loop condition l < m.
RECURSIVE UnlinkUpToBelow(_, _, _, _)
UnlinkUpToBelow(lk, n, l, m) ==
    IF l >= m THEN lk ELSE UnlinkUpToBelow(UnlinkAt(lk, n, l), n, l + 1, m)

\* The for loop of skiplist_del_init over the levels l..m of node n.
RECURSIVE UnlinkUpTo(_, _, _, _)
UnlinkUpTo(lk, n, l, m) ==
    IF l > m THEN lk ELSE UnlinkUpTo(UnlinkAt(lk, n, l), n, l + 1, m)

\* LowerLevel that stops one level early (m > 1 for m > 0).
RECURSIVE LowerLevelEarly(_, _)
LowerLevelEarly(lk, m) ==
    IF lk.next[head][m] = head /\ lk.prev[head][m] = head /\ m > 1
    THEN LowerLevelEarly(lk, m - 1)
    ELSE m

\* The while loop of skiplist_del_init that lowers the header's level.
RECURSIVE LowerLevel(_, _)
LowerLevel(lk, m) ==
    IF lk.next[head][m] = head /\ lk.prev[head][m] = head /\ m > 0
    THEN LowerLevel(lk, m - 1)
    ELSE m

SkipInit ==
    /\ level = [n \in SkipAll |-> 0]
    /\ next = [n \in SkipAll |-> [k \in Levels |-> n]]
    /\ prev = [n \in SkipAll |-> [k \in Levels |-> n]]
    /\ key = [n \in SkipAll |-> KeyInit]
    /\ spinning = FALSE
    /\ inserted = <<>>
    /\ lastop = [op |-> "init", node |-> head, oldlevel |-> 0]

Resident(n) == \E i \in 1..Len(inserted) : inserted[i] = n

\* skiplist_insert that links the node at the level the caller selected,
\* however far above the header's level that is.
skiplist_insert_uncapped(n, ky, lv) ==
    /\ ~spinning
    /\ ~Resident(n)
    /\ ky < KeyInit
    /\ LET update == SearchFrom(head, level[head], ky,
                                [k \in Levels |-> head])
           hl     == IF lv > level[head] THEN lv ELSE level[head]
           lk     == SpliceFrom([next |-> next, prev |-> prev], n, update, lv)
       IN /\ level' = [level EXCEPT ![head] = hl, ![n] = lv]
          /\ key' = [key EXCEPT ![n] = ky]
          /\ next' = lk.next
          /\ prev' = lk.prev
          /\ lastop' = [op |-> "insert", node |-> n, oldlevel |-> level[head],
                        was |-> [next |-> next, prev |-> prev]]
    /\ inserted' = Append(inserted, n)
    /\ UNCHANGED <<spinning, radixVars, urwVars, levelVars>>

\* The caller sets node->key and node->level, then calls skiplist_insert.
skiplist_insert(n, ky, lv) ==
    /\ ~spinning
    /\ ~Resident(n)
    /\ ky < KeyInit
    /\ LET update == SearchFrom(head, level[head], ky,
                                [k \in Levels |-> head])
           raise  == lv > level[head]
           k      == IF raise THEN level[head] + 1 ELSE lv
           hl     == IF raise THEN level[head] + 1 ELSE level[head]
           upd    == IF raise THEN [update EXCEPT ![k] = head] ELSE update
           lk     == SpliceFrom([next |-> next, prev |-> prev], n, upd, k)
       IN /\ level' = [level EXCEPT ![head] = hl, ![n] = k]
          /\ key' = [key EXCEPT ![n] = ky]
          /\ next' = lk.next
          /\ prev' = lk.prev
          /\ lastop' = [op |-> "insert", node |-> n, oldlevel |-> level[head],
                        was |-> [next |-> next, prev |-> prev]]
    /\ inserted' = Append(inserted, n)
    /\ UNCHANGED <<spinning, radixVars, urwVars, levelVars>>

\* Whether the inner while loop of skiplist_insert at level k, from p,
\* exits within fuel rounds. The loop changes p alone, so once it has run
\* as many rounds as there are nodes p has a value it had before, and the
\* loop never exits.
RECURSIVE ScanExits(_, _, _, _)
ScanExits(p, k, ky, fuel) ==
    IF key[next[p][k]] <= ky
    THEN fuel > 0 /\ ScanExits(next[p][k], k, ky, fuel - 1)
    ELSE TRUE

\* skiplist_insert of a node whose key is still the one INIT_SKIPLIST_NODE
\* gave it, which is the header's own key: q->key <= key holds of every
\* node, no node ends the scan, and the call never returns.
skiplist_insert_spin(n) ==
    /\ ~spinning
    /\ ~Resident(n)
    /\ key[n] = KeyInit
    /\ ~ScanExits(head, level[head], key[n], Cardinality(SkipAll))
    /\ spinning' = TRUE
    /\ lastop' = [op |-> "spin", node |-> n, oldlevel |-> level[head]]
    /\ UNCHANGED <<level, next, prev, key, inserted, radixVars, urwVars, levelVars>>

\* skiplist_del_init that lowers the header's level whenever the node's
\* level is at most the header's (m <= head->level).
skiplist_del_init_atmost(n) ==
    /\ ~spinning
    /\ LET m   == level[n]
           lk  == UnlinkUpTo([next |-> next, prev |-> prev], n, 0, m)
           hl  == IF m <= level[head] THEN LowerLevel(lk, m) ELSE level[head]
           ini == INIT_SKIPLIST_NODE(n, [level EXCEPT ![head] = hl],
                                     lk.next, lk.prev, key)
       IN /\ level' = ini.level
          /\ next' = ini.next
          /\ prev' = ini.prev
          /\ key' = ini.key
          /\ lastop' = [op |-> "del", node |-> n, oldlevel |-> level[head],
                        resident |-> Resident(n),
                        undoes |-> lastop.op = "insert" /\ lastop.node = n]
    /\ inserted' = SelectSeq(inserted, LAMBDA x : x # n)
    /\ UNCHANGED <<spinning, radixVars, urwVars, levelVars>>

\* skiplist_del_init(head, node).
skiplist_del_init(n) ==
    /\ ~spinning
    /\ LET m   == level[n]
           lk  == UnlinkUpTo([next |-> next, prev |-> prev], n, 0, m)
           hl  == IF m = level[head] THEN LowerLevel(lk, m) ELSE level[head]
           ini == INIT_SKIPLIST_NODE(n, [level EXCEPT ![head] = hl],
                                     lk.next, lk.prev, key)
       IN /\ level' = ini.level
          /\ next' = ini.next
          /\ prev' = ini.prev
          /\ key' = ini.key
          /\ lastop' = [op |-> "del", node |-> n, oldlevel |-> level[head],
                        resident |-> Resident(n),
                        undoes |-> lastop.op = "insert" /\ lastop.node = n]
    /\ inserted' = SelectSeq(inserted, LAMBDA x : x # n)
    /\ UNCHANGED <<spinning, radixVars, urwVars, levelVars>>

SkipNext ==
    \/ \E n \in SkipNodes, ky \in SkipKeys, lv \in SelLevels :
           skiplist_insert(n, ky, lv)
    \/ \E n \in SkipNodes : skiplist_insert_spin(n)
    \/ \E n \in SkipNodes : skiplist_del_init(n)

\* The random seeds the callers of the allocating variants pass, and the
\* numbers of entries randomLevel is asked about.
MaxSeed == 17

Seeds == 0..MaxSeed

MaxEntries == 33

\* randomLevel with the mask 0x1F.
randomLevelWide(randseed) == randseed % 32

\* randomLevel(randseed): randseed & 0xF.
randomLevel(randseed) == randseed % 16

\* randomLevel(entries, randseed) of the variant that counts its entries.
randomLevelFor(entries, randseed) ==
    IF entries > 31 THEN randseed % 16
    ELSE IF entries > 15 THEN randseed % 8
    ELSE IF entries > 7 THEN randseed % 4
    ELSE IF entries > 3 THEN randseed % 2
    ELSE 0

\* skiplist_insert of the allocating variants: the level of the new node
\* is randomLevel of the seed, and the rest is as in skiplist_insert. The
\* list's entries are the resident nodes.
skiplist_insert_random(n, ky, randseed) ==
    skiplist_insert(n, ky, randomLevel(randseed))

skiplist_insert_entries(n, ky, randseed) ==
    skiplist_insert(n, ky, randomLevelFor(Len(inserted) + 1, randseed))

\* A call of randomLevel(entries, randseed) as skiplist_insert makes it:
\* entries is l->entries after ++l->entries, the new node counted. level is
\* what the call returned, NoLevel before it has.
NoLevel == 0 - 1

NotDrawn == [entries |-> 0, randseed |-> 0, level |-> NoLevel]

LevelInit ==
    drawn \in [entries : 1..MaxEntries, randseed : Seeds, level : {NoLevel}]

RandomLevelCall ==
    /\ drawn.level = NoLevel
    /\ drawn.entries >= 1
    /\ drawn' = [drawn EXCEPT
                   !.level = randomLevelFor(drawn.entries, drawn.randseed)]
    /\ UNCHANGED <<skipVars, radixVars, urwVars>>

LevelNext == RandomLevelCall

\* The calls on a list of few nodes, with every level a caller may select
\* and every seed: the header's level climbs as nodes come and go.
MaxTallNodes == 2

TallNodes == 1..MaxTallNodes

\* One key: the nodes of equal keys queue up behind one another.
TallKeys == {1}

\* The seeds and the levels of the callers of the three variants of insert
\* on one list: the level the caller selects, randomLevel(randseed), and
\* randomLevel(++l->entries, randseed).
MaxPolicySeed == 1

PolicySeeds == 0..MaxPolicySeed

MaxPolicyLevel == 1

PolicyLevels == 0..MaxPolicyLevel

\* The node an insert links: the allocating variants get it from malloc,
\* and which of the unused nodes it is makes no difference to the list.
NewNode == CHOOSE n \in PolicyNodes \ {inserted[i] : i \in 1..Len(inserted)} :
               \A m \in PolicyNodes \ {inserted[i] : i \in 1..Len(inserted)} :
                   n <= m

PolicyNext ==
    \/ \E ky \in SkipKeys, lv \in PolicyLevels :
           /\ Len(inserted) < MaxPolicyNodes
           /\ skiplist_insert(NewNode, ky, lv)
    \/ \E ky \in SkipKeys, randseed \in PolicySeeds :
           /\ Len(inserted) < MaxPolicyNodes
           /\ skiplist_insert_random(NewNode, ky, randseed)
    \/ \E ky \in SkipKeys, randseed \in PolicySeeds :
           /\ Len(inserted) < MaxPolicyNodes
           /\ skiplist_insert_entries(NewNode, ky, randseed)
    \/ \E n \in PolicyNodes : Resident(n) /\ skiplist_del_init(n)

TallNext ==
    \/ \E n \in TallNodes, ky \in TallKeys, lv \in Levels :
           skiplist_insert(n, ky, lv)
    \/ \E n \in TallNodes, ky \in TallKeys, randseed \in Seeds :
           skiplist_insert_random(n, ky, randseed)
    \/ \E n \in TallNodes, ky \in TallKeys, randseed \in Seeds :
           skiplist_insert_entries(n, ky, randseed)
    \/ \E n \in TallNodes : skiplist_insert_spin(n)
    \/ \E n \in TallNodes : skiplist_del_init(n)


-----------------------------------------------------------------------------
(* Sparse radix tree                                                       *)
(*                                                                         *)
(* tree is one record:                                                     *)
(*   shift, height, rnode, min : the fields of struct sradix_tree_root     *)
(*       (stores_size and mask follow from shift);                         *)
(*   mem   : the memory of every node of the allocator's pool, live or     *)
(*       not: [height, count, fulls, parent, stores]. A freed node keeps    *)
(*       what it held until the allocator hands it out again;              *)
(*   live  : the nodes handed out by alloc and not yet given to free;      *)
(*   freed : the nodes given to free and not handed out again;             *)
(*   stale : the live nodes whose parent pointer refers to a node that was *)
(*       freed after the pointer was set and that alloc has handed out     *)
(*       again since: the pointer now leads to another node's memory;      *)
(*   nalloc: the calls of alloc made by the current call of enter;         *)
(*   nomem : alloc returned NULL in the last call;                         *)
(*   ret   : what the last call returned (0, or ENOMEM for -ENOMEM);       *)
(*   fault : what went wrong in the last call: "uaf" (a freed node was     *)
(*       read), "uafw" (a freed node was written), "refree" (a freed node  *)
(*       was freed again), "bug"                                           *)
(*       (a BUG_ON fired), "wild" (a pointer that is no node was           *)
(*       dereferenced, or a shift count was out of range), "clash" (assign *)
(*       reported an index that already held an item), "spin" (enter did   *)
(*       not leave its redo loop within MaxRounds rounds, or a walk along  *)
(*       parent pointers did not end within MaxWalk steps);                *)
(*   zero  : the redo rounds of the last enter that placed no item;        *)
(*   late  : history: the calls since the counters first went wrong;       *)
(*   held  : history, what the callers know: for every index at which    *)
(*       assign reported an item that they have not deleted since, the     *)
(*       item and the leaf node reported;                                  *)
(*   calls : history: the callbacks the last call made, in order, each as  *)
(*       [fn, node, at, what]: assign(node, at, what), rm(node, at) and    *)
(*       extend(node, what), for which at is the store of node that holds  *)
(*       what;                                                             *)
(*   fresh : history: since init_sradix_tree_root the tree has seen        *)
(*       nothing but calls of enter that returned 0;                       *)
(*   op    : history: the last call.                                       *)
(* NULL is 0, nodes are 1..MaxTreeNodes, items are negative numbers.       *)
(* Pointers, indices and counters are shown by their values; the unsigned  *)
(* counters count and fulls are shown by the representative of their value *)
(* modulo 2^32 that lies nearest 0, and compared as unsigned numbers.      *)

\* The nodes of the allocator's pool.
MaxTreeNodes == 8

\* The largest number of items the callers keep in the tree.
MaxHeld == 5

\* The largest batch given to one call of sradix_tree_enter.
MaxBatch == 2

\* The redo rounds of one sradix_tree_enter call that the model follows.
MaxRounds == 6

\* The steps of one walk along parent pointers that the model follows.
MaxWalk == 12

NULL == 0

ENOMEM == 12

Pool == 1..MaxTreeNodes

\* The j-th item of a batch, for j from 1: item pointers are opaque to the
\* tree, and the items of a batch are told apart by their place in it.
Item(j) == 0 - j

\* The shifts the trees are created with.
Shifts == {1, 2}

RECURSIVE Pow2(_)
Pow2(n) == IF n <= 0 THEN 1 ELSE 2 * Pow2(n - 1)

\* x >> n and x << n on unsigned long, for the values that arise here.
Shr(x, n) == x \div Pow2(n)

Shl(x, n) == x * Pow2(n)

stores_size(T) == Pow2(T.shift)

mask(T) == stores_size(T) - 1

\* x & mask, mask being 2^shift - 1.
AndMask(T, x) == x % stores_size(T)

\* a < b for unsigned int values shown by their representatives.
ULess(a, b) == IF (a < 0) = (b < 0) THEN a < b ELSE b < 0

Slots(T) == 0..(stores_size(T) - 1)

\* A node as the caller's allocator returns it: zeroed.
ZeroNode(T) ==
    [height |-> 0, count |-> 0, fulls |-> 0, parent |-> NULL,
     stores |-> [k \in Slots(T) |-> NULL]]

\* Reading node n, and writing it: faults when n was freed.
Touch(T, n) ==
    IF n \in T.freed THEN [T EXCEPT !.fault = @ \cup {"uaf"}] ELSE T

Write(T, n) ==
    IF n \in T.freed THEN [T EXCEPT !.fault = @ \cup {"uafw"}] ELSE T

\* Writing the node that from->parent leads to.
WriteUp(T, from) ==
    IF from \in T.stale \/ T.mem[from].parent \in T.freed
    THEN [T EXCEPT !.fault = @ \cup {"uafw"}] ELSE T

Fault(T, what) == [T EXCEPT !.fault = @ \cup {what}]

\* The call of a callback of the root.
Fire(T, fn, node, at, what) ==
    [T EXCEPT !.calls = Append(@, [fn |-> fn, node |-> node, at |-> at,
                                   what |-> what])]

\* The pool nodes that the nodes of S point to.
PointedFrom(T, S) ==
    {x \in Pool : \E n \in S :
        \/ T.mem[n].parent = x
        \/ \E k \in Slots(T) : T.mem[n].stores[k] = x}

RECURSIVE ReachFrom(_, _)
ReachFrom(T, S) ==
    LET S2 == S \cup PointedFrom(T, S)
    IN IF S2 = S THEN S ELSE ReachFrom(T, S2)

\* Between calls the program can reach a freed node only through the
\* pointers of the live nodes and of the freed nodes these lead to. The
\* freed nodes it cannot reach are as good as never used: Forget returns
\* them to the allocator's stock of nodes, whose contents do not matter.
ScrubKeep(T, keep) ==
    [T EXCEPT !.freed = @ \cap keep,
              !.stale = @ \cap T.live,
              !.mem = [n \in Pool |->
                         IF n \in T.live \cup keep THEN T.mem[n]
                         ELSE ZeroNode(T)],
              !.nalloc = 0]

Scrub(T) ==
    ScrubKeep(T, ReachFrom(T, T.live \cup ({T.rnode} \cap Pool)
                                    \cup {T.held[x].node : x \in DOMAIN T.held}))

Least(S) == CHOOSE x \in S : \A y \in S : x <= y

RECURSIVE Ascending(_)
Ascending(S) ==
    IF S = {} THEN <<>> ELSE <<Least(S)>> \o Ascending(S \ {Least(S)})

Range(q) == {q[i] : i \in DOMAIN q}

\* The nodes met from the pointers of todo on, in the order of a walk that
\* follows a node's stores from slot 0 up and then its parent.
RECURSIVE WalkOrder(_, _, _)
WalkOrder(T, todo, done) ==
    IF todo = <<>> THEN done
    ELSE LET n == Head(todo)
         IN IF n \notin Pool \/ n \in Range(done)
            THEN WalkOrder(T, Tail(todo), done)
            ELSE WalkOrder(T,
                           [k \in 1..stores_size(T) |-> T.mem[n].stores[k - 1]]
                              \o <<T.mem[n].parent>> \o Tail(todo),
                           Append(done, n))

\* Which address the allocator gives a node is its own affair, and the tree
\* never compares addresses but for equality: Forget names the nodes by
\* their place in a walk from the root, so that two trees that differ only
\* in the addresses of their nodes are one state.
Place(order, x) ==
    IF x \in Pool THEN CHOOSE i \in Pool : order[i] = x ELSE x

Rename(S, order) ==
    [S EXCEPT !.rnode = Place(order, @),
              !.live  = {Place(order, n) : n \in @},
              !.freed = {Place(order, n) : n \in @},
              !.stale = {Place(order, n) : n \in @},
              !.held  = [x \in DOMAIN @ |->
                           [@[x] EXCEPT !.node = Place(order, @)]],
              !.calls = [i \in DOMAIN @ |->
                           [@[i] EXCEPT !.node = Place(order, @),
                                        !.what = Place(order, @)]],
              !.mem   = [i \in Pool |->
                           [S.mem[order[i]] EXCEPT
                              !.parent = Place(order, @),
                              !.stores = [k \in DOMAIN @ |-> Place(order, @[k])]]]]

OrderOf(met) == met \o Ascending(Pool \ Range(met))

ForgetNames(S) == Rename(S, OrderOf(WalkOrder(S, <<S.rnode>>, <<>>)))

Forget(T) == ForgetNames(Scrub(T))

\* root->alloc(). The allocator is the caller's; it returns NULL when the
\* pool is used up and at the call number failAt; otherwise a zeroed node,
\* which is, as reuse says, a freed node that the tree still points to, or
\* a node that nothing points to. The result is <<the new state, the node>>.
AllocPick(T, reuse) ==
    IF reuse /\ T.freed # {} THEN Least(T.freed)
    ELSE IF (Pool \ T.live) \ T.freed # {} THEN Least((Pool \ T.live) \ T.freed)
    ELSE Least(Pool \ T.live)

AllocNode(T, n) ==
    <<[T EXCEPT !.nalloc = @ + 1,
                !.mem[n] = ZeroNode(T),
                !.live = @ \cup {n},
                !.freed = @ \ {n},
                !.stale = @ \cup {h \in T.live : T.mem[h].parent = n}],
      n>>

Alloc(T, reuse, failAt) ==
    IF Pool \ T.live = {} \/ T.nalloc + 1 = failAt
    THEN <<[T EXCEPT !.nalloc = @ + 1, !.nomem = TRUE], NULL>>
    ELSE AllocNode(T, AllocPick(T, reuse))

\* root->free(node).
Free(T, n) ==
    [T EXCEPT !.fault = IF n \in T.freed THEN @ \cup {"refree"} ELSE @,
              !.live = @ \ {n}, !.freed = @ \cup {n}, !.stale = @ \ {n}]

sradix_node_full(T, n) ==
    \/ T.mem[n].fulls = stores_size(T)
    \/ (T.mem[n].height = 1 /\ T.mem[n].count = stores_size(T))

\* A height two more for every round of the loop.
RECURSIVE HeightForBy2(_, _, _)
HeightForBy2(T, index, height) ==
    IF index = 0 THEN height
    ELSE HeightForBy2(T, Shr(index, T.shift), height + 2)

\* The height that sradix_tree_extend works out for index.
RECURSIVE HeightFor(_, _, _)
HeightFor(T, index, height) ==
    IF index = 0 THEN height
    ELSE HeightFor(T, Shr(index, T.shift), height + 1)

\* The second loop of sradix_tree_extend: one new root per round. a is what
\* alloc gave for the round, node the new root, T the state in which the
\* old root is written.
RECURSIVE ExtendLoop(_, _, _, _)

\* The round without root->rnode->parent = node.
ExtendLinkNoParent(T, node, height, reuse, failAt) ==
    ExtendLoop([Fire(T, "extend", node, 0, T.rnode) EXCEPT
                  !.mem[node].stores[0] = T.rnode,
                  !.mem[node].height = T.height + 1,
                  !.mem[node].count = 1,
                  !.mem[node].fulls = IF sradix_node_full(T, T.rnode)
                                      THEN 1 ELSE @,
                  !.rnode = node,
                  !.height = T.height + 1],
               height, reuse, failAt)

ExtendLink(T, node, height, reuse, failAt) ==
    ExtendLoop([Fire(T, "extend", node, 0, T.rnode) EXCEPT
                  !.mem[node].stores[0] = T.rnode,
                  !.mem[T.rnode].parent = node,
                  !.stale = @ \ {T.rnode},
                  !.mem[node].height = T.height + 1,
                  !.mem[node].count = 1,
                  !.mem[node].fulls = IF sradix_node_full(T, T.rnode)
                                      THEN 1 ELSE @,
                  !.rnode = node,
                  !.height = T.height + 1],
               height, reuse, failAt)

ExtendAlloc(a, height, reuse, failAt) ==
    IF a[2] = NULL THEN [a[1] EXCEPT !.ret = ENOMEM]
    ELSE ExtendLink(Write(a[1], a[1].rnode), a[2], height, reuse, failAt)

ExtendLoop(T, height, reuse, failAt) ==
    IF ~(height > T.height) THEN [T EXCEPT !.ret = 0]
    ELSE ExtendAlloc(Alloc(T, reuse, failAt), height, reuse, failAt)

\* sradix_tree_extend past its first if.
ExtendHeight(T, index, reuse, failAt) ==
    ExtendLoop(T, HeightFor(T, Shr(index, T.shift * T.height), T.height),
               reuse, failAt)

\* The first if of sradix_tree_extend, a being what alloc gave.
ExtendFirst(a, index, reuse, failAt) ==
    IF a[2] = NULL THEN [a[1] EXCEPT !.ret = ENOMEM]
    ELSE ExtendHeight([a[1] EXCEPT !.mem[a[2]].height = 1,
                                   !.rnode = a[2],
                                   !.height = 1],
                      index, reuse, failAt)

sradix_tree_extend(T, index, reuse, failAt) ==
    IF T.rnode = NULL
    THEN ExtendFirst(Alloc(T, reuse, failAt), index, reuse, failAt)
    ELSE ExtendHeight(T, index, reuse, failAt)

\* The walk of sradix_tree_lookup down from node, shift bits at a time.
\* WILD is returned where the walk dereferences what is no node.
WILD == 0 - 1000

RECURSIVE LookupWalk(_, _, _, _)
LookupWalk(T, node, index, shift) ==
    IF node \notin Pool THEN WILD
    ELSE LET offset == AndMask(T, Shr(index, shift))
             nxt    == T.mem[node].stores[offset]
         IN IF nxt = NULL THEN NULL
            ELSE IF shift - T.shift >= 0
                 THEN LookupWalk(T, nxt, index, shift - T.shift)
                 ELSE nxt

sradix_tree_lookup(T, index) ==
    IF T.rnode = NULL \/ Shr(index, T.shift * T.height) # 0 THEN NULL
    ELSE LookupWalk(T, T.rnode, index, (T.height - 1) * T.shift)

\* sradix_tree_next(root, node, index, iter). What a call returns is shown
\* with the place it was read from: [val, node, offset]. val is WILD where
\* the call dereferences what is no node, and HUNG where it does not return.
\* A freed node holds what it held when freed, or, with junk, something else.
HUNG == 0 - 1001

Found(val, node, offset) == [val |-> val, node |-> node, offset |-> offset]

NoNode(T, n, junk) == n \notin Pool \/ (junk /\ n \in T.freed)

\* The predicate iter of a call: none (on is FALSE: iter == NULL), or the
\* caller's predicate on items, which returns true for the items of acc.
\* The code calls it for every store that is not NULL, those of the nodes
\* above the leaves as well, which hold nodes: nodes is what the predicate
\* returns when it is handed a node for an item.
NoIter == [on |-> FALSE, acc |-> {}, nodes |-> FALSE]

\* item && (!iter || iter(item, offset)).
Passes(iter, item) ==
    /\ item # NULL
    /\ \/ ~iter.on
       \/ IF item \in Pool THEN iter.nodes ELSE item \in iter.acc

\* The for loops of sradix_tree_next: the first offset from `from` on whose
\* store passes, or stores_size.
FirstUsed(T, node, from, iter) ==
    IF \E k \in Slots(T) : k >= from /\ Passes(iter, T.mem[node].stores[k])
    THEN Least({k \in Slots(T) :
                   k >= from /\ Passes(iter, T.mem[node].stores[k])})
    ELSE stores_size(T)

\* while (node->height > 1), with the locals node, item and offset.
RECURSIVE NextDown(_, _, _, _, _, _)

\* if (offset < root->stores_size) break, after the for loop at go_down;
\* when no store passed, item is the last store the loop read.
NextInto(T, node, offset, iter, junk) ==
    IF offset < stores_size(T)
    THEN Found(T.mem[node].stores[offset], node, offset)
    ELSE NextDown(T, node, T.mem[node].stores[stores_size(T) - 1], offset,
                  iter, junk)

\* go_down: node = item, and the for loop over its stores.
GoDown(T, item, iter, junk) ==
    IF NoNode(T, item, junk) THEN Found(WILD, NULL, 0)
    ELSE NextInto(T, item, FirstUsed(T, item, 0, iter), iter, junk)

NextDown(T, node, item, offset, iter, junk) ==
    IF T.mem[node].height > 1 THEN GoDown(T, item, iter, junk)
    ELSE Found(item, node, offset)

\* while (node), with the locals node and index.
RECURSIVE NextUp(_, _, _, _, _, _)

\* if (offset < root->stores_size) break; node = node->parent;
\* index >>= root->shift.
NextUpAt(T, node, index, offset, fuel, iter, junk) ==
    IF offset < stores_size(T)
    THEN NextDown(T, node, T.mem[node].stores[offset], offset, iter, junk)
    ELSE NextUp(T, T.mem[node].parent, Shr(index, T.shift), fuel - 1, iter,
                junk)

NextUp(T, node, index, fuel, iter, junk) ==
    IF node = NULL THEN Found(NULL, NULL, 0)
    ELSE IF NoNode(T, node, junk) THEN Found(WILD, NULL, 0)
    ELSE IF fuel = 0 THEN Found(HUNG, NULL, 0)
    ELSE NextUpAt(T, node, index,
                  FirstUsed(T, node, AndMask(T, index) + 1, iter),
                  fuel, iter, junk)

\* if (unlikely(node == NULL)), past the for loop over the root's stores.
NextRoot(T, node, offset, iter, junk) ==
    IF offset >= stores_size(T) THEN Found(NULL, NULL, 0)
    ELSE IF T.mem[node].height = 1
    THEN Found(T.mem[node].stores[offset], node, offset)
    ELSE GoDown(T, T.mem[node].stores[offset], iter, junk)

sradix_tree_next(T, node, index, iter, junk) ==
    IF node = NULL
    THEN IF NoNode(T, T.rnode, junk) THEN Found(WILD, NULL, 0)
         ELSE NextRoot(T, T.rnode, FirstUsed(T, T.rnode, 0, iter), iter, junk)
    ELSE NextUp(T, node, index, MaxWalk, iter, junk)


\* The for loop of sradix_tree_enter over the stores of node from offset:
\* the first offset whose store is empty or holds a node that is not full,
\* or stores_size; and the state, in which the nodes looked at are touched.
RECURSIVE ScanStores(_, _, _)
ScanStores(T, node, offset) ==
    IF offset >= stores_size(T) THEN <<T, offset>>
    ELSE LET tmp == T.mem[node].stores[offset]
         IN IF tmp = NULL THEN <<T, offset>>
            ELSE IF tmp \notin Pool THEN <<Fault(T, "wild"), offset>>
            ELSE IF ~sradix_node_full(T, tmp) THEN <<Touch(T, tmp), offset>>
            ELSE ScanStores(Touch(T, tmp), node, offset + 1)

\* The while (shift > 0) loop of sradix_tree_enter. The result is the
\* state and the locals [node, index, offset]; ret is ENOMEM when an
\* allocation failed.
RECURSIVE Descend(_, _, _, _, _, _, _)

\* The end of a round: node = tmp, shift -= root->shift, offset anew.
DescendInto(T, tmp, index, shift, reuse, failAt) ==
    Descend(T, tmp, index, shift - T.shift,
            AndMask(T, Shr(index, shift - T.shift)), reuse, failAt)

\* if (!tmp), a being what alloc gave.
DescendNew(a, node, at, index, off, shift, reuse, failAt) ==
    IF a[2] = NULL
    THEN <<[a[1] EXCEPT !.ret = ENOMEM],
           [node |-> node, index |-> index, offset |-> off]>>
    ELSE DescendInto([Fire(Write(a[1], node), "extend", node, at, a[2]) EXCEPT
                        !.mem[a[2]].height = shift \div a[1].shift,
                        !.mem[node].stores[at] = a[2],
                        !.mem[a[2]].parent = node,
                        !.mem[node].count = @ + 1],
                     a[2], index, shift, reuse, failAt)

\* The round after its for loop, which ended at off with the store at.
DescendAt(T, node, off, at, index, shift, reuse, failAt) ==
    IF "wild" \in T.fault
    THEN <<T, [node |-> node, index |-> index, offset |-> off]>>
    ELSE IF T.mem[node].stores[at] = NULL
    THEN DescendNew(Alloc(T, reuse, failAt), node, at, index, off, shift,
                    reuse, failAt)
    ELSE DescendInto(T, T.mem[node].stores[at], index, shift, reuse, failAt)

\* index += (offset - offset_saved) << shift; index &= ~((1UL << shift) - 1).
MovedIndex(index, moved, shift) == moved - (moved % Pow2(shift))

\* sc is what the for loop gave: the state and the offset it ended at.
DescendScan(sc, node, index, shift, offset, reuse, failAt) ==
    DescendAt(sc[1], node, sc[2],
              IF sc[2] >= stores_size(sc[1]) THEN stores_size(sc[1]) - 1
              ELSE sc[2],
              IF sc[2] # offset
              THEN MovedIndex(index, index + Shl(sc[2] - offset, shift), shift)
              ELSE index,
              shift, reuse, failAt)

Descend(T, node, index, shift, offset, reuse, failAt) ==
    IF ~(shift > 0) \/ T.fault \cap {"wild"} # {}
    THEN <<T, [node |-> node, index |-> index, offset |-> offset]>>
    ELSE DescendScan(ScanStores(T, node, offset), node, index, shift, offset,
                     reuse, failAt)

\* The for loop of sradix_tree_enter that fills the leaf node from offset.
\* The result is the state and the loop's counters [i, j].
RECURSIVE FillLeaf(_, _, _, _, _, _, _, _)
FillLeaf(T, node, index, offset, item, num, i, j) ==
    IF ~(/\ ULess(j, stores_size(T) - T.mem[node].count)
         /\ i < stores_size(T) - offset
         /\ j < num)
    THEN <<T, [i |-> i, j |-> j]>>
    ELSE IF T.mem[node].stores[offset + i] = NULL
    THEN LET T1 == IF (index + i) \in DOMAIN T.held
                   THEN Fault(T, "clash") ELSE T
             T2 == [Fire(T1, "assign", node, index + i, item[j + 1]) EXCEPT
                      !.mem[node].stores[offset + i] = item[j + 1],
                      !.held = [x \in (DOMAIN T.held) \cup {index + i} |->
                                  IF x = index + i
                                  THEN [item |-> item[j + 1], node |-> node]
                                  ELSE T.held[x]]]
         IN FillLeaf(T2, node, index, offset, item, num, i + 1, j + 1)
    ELSE FillLeaf(T, node, index, offset, item, num, i + 1, j)

\* The while (sradix_node_full(root, node)) loop of sradix_tree_enter. The
\* result is the state and the node the loop ends at (NULL past the root).
RECURSIVE FullUp(_, _, _)
FullUp(T, node, fuel) ==
    IF fuel = 0 THEN <<Fault(T, "spin"), node>>
    ELSE IF ~sradix_node_full(T, node) THEN <<T, node>>
    ELSE LET up == T.mem[node].parent
         IN IF up = NULL THEN <<T, NULL>>
            ELSE LET T1 == [WriteUp(Touch(T, node), node) EXCEPT
                                  !.mem[up].fulls = @ + 1]
                 IN FullUp(T1, up, fuel - 1)

\* sradix_tree_enter from the label redo on, with the locals node, item and
\* num (the items left are item, num of them).
RECURSIVE EnterRedo(_, _, _, _, _, _)

\* if (num) goto redo; return 0.
EnterAgain(T, top, rest, round, reuse, failAt) ==
    IF "spin" \in T.fault THEN T
    ELSE IF Len(rest) # 0
    THEN EnterRedo(T, top, rest, round + 1, reuse, failAt)
    ELSE [T EXCEPT !.ret = 0]

\* if (unlikely(!node)), u being the state and the node the fullness loop
\* ended at.
EnterUp(u, rest, round, reuse, failAt) ==
    EnterAgain(IF u[2] = NULL
               THEN [u[1] EXCEPT !.min = Shl(1, u[1].height * u[1].shift)]
               ELSE u[1],
               u[2], rest, round, reuse, failAt)

\* node->count += j; num -= j; root->min = index + i; and the fullness
\* loop; f is the state and the counters the filling of the leaf gave.
EnterFilled(f, leaf, index, item, round, reuse, failAt) ==
    EnterUp(FullUp([f[1] EXCEPT !.mem[leaf].count = @ + f[2].j,
                                !.min = index + f[2].i,
                                !.zero = IF f[2].j = 0 THEN @ + 1 ELSE @],
                   leaf, MaxWalk),
            SubSeq(item, f[2].j + 1, Len(item)), round, reuse, failAt)

\* BUG_ON(node->height != 1) and the filling of the leaf; d is the state and
\* the locals the descent gave.
EnterLeaf(d, item, round, reuse, failAt) ==
    IF d[1].ret # 0 \/ "wild" \in d[1].fault THEN d[1]
    ELSE IF d[1].mem[d[2].node].height # 1 THEN Fault(d[1], "bug")
    ELSE EnterFilled(FillLeaf(Touch(d[1], d[2].node), d[2].node, d[2].index,
                              d[2].offset, item, Len(item), 0, 0),
                     d[2].node, d[2].index, item, round, reuse, failAt)

\* height = node->height; shift = (height - 1) * root->shift; the descent.
EnterFrom(T, node, index, item, round, reuse, failAt) ==
    IF T.mem[node].height < 1 THEN Fault(T, "wild")
    ELSE EnterLeaf(Descend(T, node, index, (T.mem[node].height - 1) * T.shift,
                           AndMask(T, Shr(index,
                                          (T.mem[node].height - 1) * T.shift)),
                           reuse, failAt),
                   item, round, reuse, failAt)

\* if (error) return error; node = root->rnode.
EnterExtended(T, index, item, round, reuse, failAt) ==
    IF T.ret # 0 THEN T
    ELSE EnterFrom(Touch(T, T.rnode), T.rnode, index, item, round, reuse, failAt)

EnterRedo(T, node, item, round, reuse, failAt) ==
    IF round > MaxRounds THEN Fault(T, "spin")
    ELSE IF \/ node = NULL
            \/ Shr(T.min, T.shift * T.height) # 0
            \/ sradix_node_full(T, T.rnode)
    THEN EnterExtended(sradix_tree_extend(T, T.min, reuse, failAt), T.min,
                       item, round, reuse, failAt)
    ELSE EnterFrom(Touch([T EXCEPT !.ret = 0], node), node, T.min, item,
                   round, reuse, failAt)

sradix_tree_enter(T, item, reuse, failAt) ==
    EnterRedo(T, T.rnode, item, 1, reuse, failAt)

\* sradix_tree_shrink.
RECURSIVE sradix_tree_shrink(_)

\* A round of its loop, T being the state in which to_free was read.
ShrinkRoot(T, to_free) ==
    IF T.mem[to_free].count # 1 \/ T.mem[to_free].stores[0] = NULL
    THEN T
    ELSE sradix_tree_shrink(Free([T EXCEPT !.rnode = T.mem[to_free].stores[0],
                                           !.height = @ - 1], to_free))

sradix_tree_shrink(T) ==
    IF ~(T.height > 1) THEN T
    ELSE IF T.rnode \notin Pool THEN Fault(T, "wild")
    ELSE ShrinkRoot(Touch(T, T.rnode), T.rnode)

\* The first loop of sradix_tree_delete_from_leaf: the counts go down from
\* node upwards. The result is the state and the node the loop ends at.
RECURSIVE CountDown(_, _)
CountDown(T, node) ==
    LET T1 == [T EXCEPT !.mem[node].count = @ - 1]
        up == T1.mem[node].parent
    IN IF T1.mem[node].count # 0 THEN <<T1, node>>
       ELSE IF up = NULL THEN <<T1, NULL>>
       ELSE CountDown(WriteUp(T1, node), up)

\* The do-while loop at free_nodes: start and its ancestors below end are
\* freed; start->parent is read after start is freed.
RECURSIVE FreeNodes(_, _, _, _)

\* start = start->parent; while (start != end).
FreeNext(T, start, end, fuel) ==
    IF T.mem[start].parent = end THEN T
    ELSE FreeNodes(T, T.mem[start].parent, end, fuel - 1)

FreeNodes(T, start, end, fuel) ==
    IF start \notin Pool THEN Fault(T, "wild")
    ELSE IF fuel = 0 THEN Fault(T, "spin")
    ELSE FreeNext(Touch(Free(T, start), start), start, end, fuel)

\* The loop of sradix_tree_delete_from_leaf over the ancestors of a leaf
\* that was full.
RECURSIVE FullDown(_, _)
FullDown(T, node) ==
    LET up == T.mem[node].parent
    IN IF up = NULL THEN T
       ELSE LET T1 == [WriteUp(T, node) EXCEPT !.mem[up].fulls = @ - 1]
            IN IF T1.mem[up].fulls # stores_size(T) - 1 THEN T1
               ELSE FullDown(T1, up)

LowerMin(T, index) == IF T.min > index THEN [T EXCEPT !.min = index] ELSE T

\* From if (start != end) on, T being the state with the store cleared.
DeleteAt(T, leaf, end, index) ==
    IF leaf # end
    THEN LowerMin(FreeNodes(sradix_tree_shrink(T), leaf, end, MaxWalk), index)
    ELSE IF T.mem[end].count = stores_size(T) - 1
    THEN LowerMin(FullDown(T, end), index)
    ELSE LowerMin(T, index)

\* end = node and the if after it, c being the state and the node the
\* first loop ended at.
DeleteCounted(c, leaf, index) ==
    IF c[2] = NULL
    THEN LowerMin(FreeNodes([c[1] EXCEPT !.rnode = NULL], leaf, NULL, MaxWalk),
                  index)
    ELSE IF c[1].mem[c[2]].height < 1 THEN Fault(c[1], "wild")
    ELSE DeleteAt([Fire(Write(c[1], c[2]), "rm", c[2],
                        AndMask(c[1], Shr(index, c[1].shift
                                             * (c[1].mem[c[2]].height - 1))),
                        NULL)
                   EXCEPT
                     !.mem[c[2]].stores[
                         AndMask(c[1], Shr(index, c[1].shift
                                              * (c[1].mem[c[2]].height - 1)))]
                       = NULL],
                  leaf, c[2], index)

\* BUG_ON(node->height != 1) and the first loop.
DeleteFrom(T, leaf, index) ==
    IF T.mem[leaf].height # 1 THEN Fault(T, "bug")
    ELSE DeleteCounted(CountDown(Write(T, leaf), leaf), leaf, index)

sradix_tree_delete_from_leaf(T, leaf, index) ==
    DeleteFrom(Touch(T, leaf), leaf, index)

\* The tree after init_sradix_tree_root(root, sh), in zeroed storage: min
\* is 0.
InitTree(sh) ==
    [shift |-> sh, height |-> 0, rnode |-> NULL, min |-> 0,
     mem |-> [n \in Pool |->
                [height |-> 0, count |-> 0, fulls |-> 0, parent |-> NULL,
                 stores |-> [k \in 0..(Pow2(sh) - 1) |-> NULL]]],
     live |-> {}, freed |-> {}, stale |-> {}, nalloc |-> 0, ret |-> 0,
     fault |-> {}, zero |-> 0, late |-> 0, nomem |-> FALSE,
     held |-> [x \in {} |-> [item |-> NULL, node |-> NULL]],
     calls |-> <<>>, fresh |-> TRUE,
     op |-> "init"]

\* No iteration is under way.
WalkIdle ==
    [at |-> "idle", val |-> NULL, node |-> NULL, index |-> 0, got |-> <<>>,
     iter |-> NoIter]

RadixInit == \E sh \in Shifts : tree = InitTree(sh) /\ walk = WalkIdle

\* The counters of the live nodes say what their stores hold: count the
\* stores in use, and fulls of a node above the leaves the children that
\* are full.
Coherent(T) ==
    \A n \in T.live :
        /\ T.mem[n].count =
               Cardinality({k \in Slots(T) : T.mem[n].stores[k] # NULL})
        /\ T.mem[n].height > 1 =>
               T.mem[n].fulls =
                  Cardinality({k \in Slots(T) :
                                  /\ T.mem[n].stores[k] \in Pool
                                  /\ sradix_node_full(T, T.mem[n].stores[k])})

\* The calls the model follows after the one that first left the counters
\* saying something else than the stores hold.
MaxLate == 2

\* late counts the calls from that one on.
Late(T, before) ==
    [T EXCEPT !.late = IF before > 0 \/ ~Coherent(T) THEN before + 1 ELSE 0]

\* A call is made only while the kernel runs and its heap is whole: not
\* after a BUG_ON, a wild dereference or a call that did not return, and not
\* after a call that wrote to a freed node or freed a node twice, when what
\* the memory holds is no longer the tree's to say.
Running ==
    /\ tree.fault \cap {"bug", "wild", "spin", "uafw", "refree"} = {}
    /\ tree.late <= MaxLate

Batches == {[j \in 1..n |-> Item(j)] : n \in 1..MaxBatch}

\* The callers serialise their calls on a tree: none changes it while an
\* iteration is under way.
Quiet == walk.at = "idle"

\* The tree as a call finds it: the histories of the call before are
\* cleared.
Called(T) ==
    [T EXCEPT !.nalloc = 0, !.fault = {}, !.zero = 0, !.ret = 0,
              !.nomem = FALSE, !.calls = <<>>]

\* The history after a call of enter that left T.
Entered(T) ==
    [T EXCEPT !.op = "enter",
              !.fresh = @ /\ T.ret = 0 /\ ~T.nomem /\ T.fault = {}]

\* A call of sradix_tree_enter(root, item, num) with num >= 1.
Enter(item, reuse, failAt) ==
    /\ Running
    /\ Quiet
    /\ Cardinality(DOMAIN tree.held) + Len(item) <= MaxHeld
    /\ tree' = Entered(Late(Forget(sradix_tree_enter(Called(tree), item, reuse,
                                                     failAt)), tree.late))
    /\ UNCHANGED <<skipVars, urwVars, levelVars, walk>>

\* A call of sradix_tree_delete_from_leaf for an item the tree holds, with
\* the leaf node and the index that assign reported for it.
Delete(index) ==
    /\ Running
    /\ Quiet
    /\ index \in DOMAIN tree.held
    /\ LET T0 == [Called(tree) EXCEPT !.fresh = FALSE,
                     !.held = [x \in (DOMAIN tree.held) \ {index} |-> tree.held[x]]]
       IN tree' = [Late(Forget(sradix_tree_delete_from_leaf(
                                   T0, tree.held[index].node, index)),
                        tree.late)
                   EXCEPT !.op = "delete"]
    /\ UNCHANGED <<skipVars, urwVars, levelVars, walk>>

\* The indices under which the caller knows what a call of sradix_tree_next
\* returned: assign reported the item with its leaf and its index.
Known(T, r) ==
    {x \in DOMAIN T.held : /\ T.held[x].item = r.val
                           /\ T.held[x].node = r.node
                           /\ AndMask(T, x) = r.offset}

\* The iteration after a call that returned r: over at NULL, lost when r is
\* nothing the caller stored, given up when r is an item the iteration
\* returned before, and else at the item's leaf and index.
Took(T, r) ==
    IF r.val = NULL THEN [walk EXCEPT !.at = "end", !.val = NULL]
    ELSE IF Known(T, r) = {} THEN [walk EXCEPT !.at = "lost", !.val = r.val]
    ELSE IF Least(Known(T, r)) \in Range(walk.got)
    THEN [walk EXCEPT !.at = "twice", !.val = r.val]
    ELSE [at |-> "on", val |-> r.val, node |-> r.node,
          index |-> Least(Known(T, r)),
          got |-> Append(walk.got, Least(Known(T, r))),
          iter |-> walk.iter]

\* sradix_tree_next(root, NULL, 0, iter): an iteration begins.
First(iter, junk) ==
    /\ Running
    /\ walk.at = "idle"
    /\ walk' = [Took(tree, sradix_tree_next(tree, NULL, 0, iter, junk))
                EXCEPT !.iter = iter]
    /\ UNCHANGED <<skipVars, urwVars, levelVars, tree>>

\* sradix_tree_next(root, node, index, iter) with the leaf and the index of
\* the item the call before returned.
Step(junk) ==
    /\ walk.at = "on"
    /\ walk' = Took(tree, sradix_tree_next(tree, walk.node, walk.index,
                                           walk.iter, junk))
    /\ UNCHANGED <<skipVars, urwVars, levelVars, tree>>

\* The caller is done with an iteration whose last call returned.
Rest ==
    /\ walk.at \in {"end", "lost", "twice"}
    /\ walk.val \notin {WILD, HUNG}
    /\ walk' = WalkIdle
    /\ UNCHANGED <<skipVars, urwVars, levelVars, tree>>

\* The calls of alloc within one call of enter of which one may return NULL
\* (none does for failAt = 0).
MaxFailAt == 2

RadixNext ==
    \/ \E item \in Batches, reuse \in BOOLEAN, failAt \in 0..MaxFailAt :
           Enter(item, reuse, failAt)
    \/ \E index \in DOMAIN tree.held : Delete(index)
    \/ \E junk \in BOOLEAN : First(NoIter, junk)
    \/ \E junk \in BOOLEAN : Step(junk)
    \/ Rest

\* The calls on a tree whose allocator never fails: no call of alloc is made
\* to fail, and none finds the pool used up.
EnterNoFail(item, reuse) == Enter(item, reuse, 0) /\ ~tree'.nomem

NoFailNext ==
    \/ \E item \in Batches, reuse \in BOOLEAN : EnterNoFail(item, reuse)
    \/ \E index \in DOMAIN tree.held : Delete(index)

\* The predicates a caller iterates with: on the items, every choice of the
\* items it returns true for; handed a node, true or false.
Iters ==
    {[on |-> TRUE, acc |-> a, nodes |-> n] :
        a \in SUBSET {Item(j) : j \in 1..MaxBatch}, n \in BOOLEAN}

\* A caller that enters and deletes, no allocation failing, and iterates
\* with a predicate.
IterNext ==
    \/ \E item \in Batches, reuse \in BOOLEAN : EnterNoFail(item, reuse)
    \/ \E index \in DOMAIN tree.held : Delete(index)
    \/ \E iter \in Iters, junk \in BOOLEAN : First(iter, junk)
    \/ \E junk \in BOOLEAN : Step(junk)
    \/ Rest

-----------------------------------------------------------------------------
(* Upgradeable read/write lock                                             *)

\* The threads that use the lock.
MaxThreads == 3

Threads == 1..MaxThreads

\* urwlock_init: both locks free. No thread is in a call.
UrwInit ==
    /\ lock = 0
    /\ rwlock = [writer |-> 0, readers |-> {}]
    /\ pc = [t \in Threads |-> "none"]

\* raw_spin_lock returns when no thread holds the spinlock.
SpinFree == lock = 0

\* do_raw_write_lock returns when no thread holds the rwlock at all.
WriteFree == rwlock.writer = 0 /\ rwlock.readers = {}

\* do_raw_read_lock returns when no thread holds the rwlock for writing.
ReadFree == rwlock.writer = 0

\* A step of thread t from position `from` to position `to`.
Goes(t, from, to) ==
    /\ pc[t] = from
    /\ pc' = [pc EXCEPT ![t] = to]
    /\ UNCHANGED <<skipVars, radixVars, levelVars>>

\* raw_spin_lock(&urw->lock) and raw_spin_unlock(&urw->lock) by thread t.
raw_spin_lock(t) == SpinFree /\ lock' = t /\ UNCHANGED rwlock

raw_spin_unlock(t) == lock' = 0 /\ UNCHANGED rwlock

\* __urw_write_lock, __urw_write_unlock, __urw_read_lock, __urw_read_unlock.
urw_write_lock(t) ==
    WriteFree /\ rwlock' = [rwlock EXCEPT !.writer = t] /\ UNCHANGED lock

urw_write_unlock(t) == rwlock' = [rwlock EXCEPT !.writer = 0] /\ UNCHANGED lock

urw_read_lock(t) ==
    ReadFree /\ rwlock' = [rwlock EXCEPT !.readers = @ \cup {t}] /\ UNCHANGED lock

urw_read_unlock(t) ==
    rwlock' = [rwlock EXCEPT !.readers = @ \ {t}] /\ UNCHANGED lock

\* urw_wlock: the call is made, the spinlock is taken, then the write lock.
WlockCall(t) == Goes(t, "none", "wlock_lock") /\ UNCHANGED <<lock, rwlock>>

WlockSpin(t) == Goes(t, "wlock_lock", "wlock_write") /\ raw_spin_lock(t)

WlockWrite(t) == Goes(t, "wlock_write", "W") /\ urw_write_lock(t)

\* urw_wunlock: the write lock is let go, then the spinlock.
WunlockWrite(t) == Goes(t, "W", "wunlock_unlock") /\ urw_write_unlock(t)

WunlockSpin(t) == Goes(t, "wunlock_unlock", "none") /\ raw_spin_unlock(t)

\* urw_rlock: the call is made, the spinlock is taken, the read lock is
\* taken, and the spinlock is let go.
RlockCall(t) == Goes(t, "none", "rlock_lock") /\ UNCHANGED <<lock, rwlock>>

\* A urw_rlock that leaves the spinlock alone.
RlockSpinSkipped(t) ==
    Goes(t, "rlock_lock", "rlock_read") /\ UNCHANGED <<lock, rwlock>>

RlockSpin(t) == Goes(t, "rlock_lock", "rlock_read") /\ raw_spin_lock(t)

\* A urw_rlock that leaves the rwlock alone.
RlockReadSkipped(t) ==
    Goes(t, "rlock_read", "rlock_unlock") /\ UNCHANGED <<lock, rwlock>>

RlockRead(t) == Goes(t, "rlock_read", "rlock_unlock") /\ urw_read_lock(t)

\* A urw_rlock that returns with the spinlock held.
RlockUnspinKept(t) ==
    Goes(t, "rlock_unlock", "R") /\ UNCHANGED <<lock, rwlock>>

RlockUnspin(t) == Goes(t, "rlock_unlock", "R") /\ raw_spin_unlock(t)

\* urw_runlock.
Runlock(t) == Goes(t, "R", "none") /\ urw_read_unlock(t)

\* urw_ulock: the call is made, and the spinlock is taken.
UlockCall(t) == Goes(t, "none", "ulock_lock") /\ UNCHANGED <<lock, rwlock>>

UlockSpin(t) == Goes(t, "ulock_lock", "U") /\ raw_spin_lock(t)

\* urw_upgrade: the call is made, and the write lock is taken.
UpgradeCall(t) == Goes(t, "U", "upgrade_write") /\ UNCHANGED <<lock, rwlock>>

UpgradeWrite(t) == Goes(t, "upgrade_write", "W") /\ urw_write_lock(t)

\* urw_udowngrade: the read lock is taken, and the spinlock is let go.
UdowngradeRead(t) == Goes(t, "U", "udowngrade_unlock") /\ urw_read_lock(t)

UdowngradeSpin(t) == Goes(t, "udowngrade_unlock", "R") /\ raw_spin_unlock(t)

\* urw_wdowngrade: the write lock is let go, the read lock is taken, and
\* the spinlock is let go.
\* A downgrade that lets the spinlock go with the write lock.
WdowngradeWriteAndSpin(t) ==
    /\ Goes(t, "W", "wdowngrade_read")
    /\ rwlock' = [rwlock EXCEPT !.writer = 0]
    /\ lock' = 0

WdowngradeWrite(t) == Goes(t, "W", "wdowngrade_read") /\ urw_write_unlock(t)

WdowngradeRead(t) ==
    Goes(t, "wdowngrade_read", "wdowngrade_unlock") /\ urw_read_lock(t)

WdowngradeSpin(t) == Goes(t, "wdowngrade_unlock", "R") /\ raw_spin_unlock(t)

\* urw_wudowngrade.
Wudowngrade(t) == Goes(t, "W", "U") /\ urw_write_unlock(t)

\* urw_uunlock.
Uunlock(t) == Goes(t, "U", "none") /\ raw_spin_unlock(t)

\* A thread that holds no lock calls urw_wlock, urw_rlock or urw_ulock.
Calls(t) == WlockCall(t) \/ RlockCall(t) \/ UlockCall(t)

\* raw_spin_lock returns in urw_wlock, urw_rlock or urw_ulock.
TakesSpin(t) == WlockSpin(t) \/ RlockSpin(t) \/ UlockSpin(t)

\* The steps that begin a call that lets the spinlock go: urw_wunlock,
\* urw_wdowngrade, urw_udowngrade and urw_uunlock.
LetsGo(t) ==
    \/ WunlockWrite(t) \/ WdowngradeWrite(t)
    \/ UdowngradeRead(t) \/ Uunlock(t)

\* Every other step of a thread that is in a call or holds the lock.
GoesOn(t) ==
    \/ WlockWrite(t) \/ WunlockSpin(t)
    \/ RlockRead(t) \/ RlockUnspin(t)
    \/ Runlock(t)
    \/ UpgradeCall(t) \/ UpgradeWrite(t)
    \/ UdowngradeSpin(t)
    \/ WdowngradeRead(t) \/ WdowngradeSpin(t)
    \/ Wudowngrade(t)

UrwNext ==
    \E t \in Threads : Calls(t) \/ TakesSpin(t) \/ LetsGo(t) \/ GoesOn(t)

-----------------------------------------------------------------------------
(* Specifications                                                          *)

\* The skip list alone, beside a tree that no call touches.
InitSkip ==
    SkipInit /\ tree = InitTree(1) /\ walk = WalkIdle /\ UrwInit /\ drawn = NotDrawn

SpecSkip == InitSkip /\ [][SkipNext]_vars

\* The skip list of few nodes with every level and seed.
SpecSkipTall == InitSkip /\ [][TallNext]_vars

\* The skip list under the three level policies.
SpecSkipPolicy == InitSkip /\ [][PolicyNext]_vars

\* The radix tree alone, beside a skip list that no call touches.
InitRadix == SkipInit /\ RadixInit /\ UrwInit /\ drawn = NotDrawn

SpecRadix == InitRadix /\ [][RadixNext]_vars

\* The radix tree with an allocator that never fails.
SpecRadixNoFail == InitRadix /\ [][NoFailNext]_vars

\* The radix tree iterated with a predicate.
SpecRadixIter == InitRadix /\ [][IterNext]_vars

\* The lock alone, beside a skip list and a tree that no call touches.
InitUrw ==
    SkipInit /\ tree = InitTree(1) /\ walk = WalkIdle /\ UrwInit /\ drawn = NotDrawn

\* randomLevel(entries, randseed) alone, for every number of entries up to
\* MaxEntries and every seed.
InitLevel ==
    SkipInit /\ tree = InitTree(1) /\ walk = WalkIdle /\ UrwInit /\ LevelInit

SpecLevel == InitLevel /\ [][LevelNext]_vars

SpecUrw == InitUrw /\ [][UrwNext]_vars

\* The lock with threads that keep running: a thread that spins on the
\* write lock takes it once it stays free, and a reader lets go in the end.
SpecUrwFair ==
    /\ SpecUrw
    /\ \A t \in Threads : /\ WF_vars(WlockWrite(t))
                          /\ WF_vars(UpgradeWrite(t))
                          /\ WF_vars(Runlock(t))

\* The lock under fair scheduling: a thread that is in a call or holds the
\* lock goes on (it need not call again once it holds nothing); a thread
\* that holds the spinlock again and again lets it go in the end, its
\* sequence of calls being finite; and a thread that waits in raw_spin_lock
\* gets the spinlock when it is free again and again.
SpecUrwSched ==
    /\ SpecUrw
    /\ \A t \in Threads : /\ WF_vars(GoesOn(t) \/ LetsGo(t))
                          /\ SF_vars(LetsGo(t))
                          /\ SF_vars(TakesSpin(t))

-----------------------------------------------------------------------------
(* Properties of the skip list                                             *)

\* The nodes met by following next[k] from n until the header, at most
\* fuel of them.
RECURSIVE ChainFrom(_, _, _)
ChainFrom(n, k, fuel) ==
    IF n = head \/ fuel = 0 THEN <<>>
    ELSE <<n>> \o ChainFrom(next[n][k], k, fuel - 1)

Chain(k) == ChainFrom(next[head][k], k, MaxSkipNodes + 1)

\* The place of resident node n in the order of insertion.
InsertedAt(n) == CHOOSE i \in 1..Len(inserted) : inserted[i] = n

ResidentSet == {inserted[i] : i \in 1..Len(inserted)}

\* C1: following next[0] from the header visits every resident node exactly
\* once, in non-decreasing key order, before it returns to the header;
\* resident nodes with equal keys come in the order of their insertion; so
\* header.next[0] is a resident node with the smallest key, the earliest
\* inserted among those with that key.
C1_Level0Order ==
    LET c == Chain(0) IN
    /\ Len(c) = Len(inserted)
    /\ {c[i] : i \in 1..Len(c)} = ResidentSet
    /\ \A i, j \in 1..Len(c) : i < j =>
          /\ c[i] # c[j]
          /\ key[c[i]] <= key[c[j]]
          /\ key[c[i]] = key[c[j]] => InsertedAt(c[i]) < InsertedAt(c[j])
    /\ inserted # <<>> =>
          /\ next[head][0] \in ResidentSet
          /\ \A n \in ResidentSet :
                /\ key[next[head][0]] <= key[n]
                /\ (n # next[head][0] /\ key[n] = key[next[head][0]])
                       => InsertedAt(next[head][0]) < InsertedAt(n)

\* C1's case: after an insert, two resident nodes have equal keys and a
\* third node with a smaller key was inserted after a node with a larger one.
C1_Witness ==
    /\ lastop.op = "insert"
    /\ \E a, b \in ResidentSet : a # b /\ key[a] = key[b]
    /\ \E c, d \in ResidentSet :
          key[c] < key[d] /\ InsertedAt(d) < InsertedAt(c)

MaxResidentLevel ==
    IF ResidentSet = {} THEN 0
    ELSE CHOOSE m \in Levels :
             /\ \E n \in ResidentSet : level[n] = m
             /\ \A n \in ResidentSet : level[n] <= m

\* C5: after every skiplist_insert and skiplist_del_init, header.level is
\* the largest level of a resident node, and 0 when the list is empty.
C5_HeaderLevelIsMax == level[head] = MaxResidentLevel

\* C5's case: a delete took the only node of the top level away, and the
\* header's level came down to that of the nodes that remain.
C5_Witness ==
    /\ lastop.op = "del"
    /\ inserted # <<>>
    /\ level[head] >= 1
    /\ level[head] < lastop.oldlevel

\* C6: once every inserted node has been deleted again, in whatever order,
\* header.level is 0, skiplist_empty(header) holds, and the header points
\* to itself at every one of the 16 levels.
C6_EmptyAgain ==
    (lastop.op = "del" /\ inserted = <<>>) =>
        /\ level[head] = 0
        /\ skiplist_empty(head)
        /\ \A k \in Levels : next[head][k] = head /\ prev[head][k] = head

\* C6's case: the last resident node was deleted, and the header's level
\* was at least 2 before, so at least two nodes had been inserted.
C6_Witness ==
    /\ lastop.op = "del"
    /\ inserted = <<>>
    /\ lastop.oldlevel >= 2
    /\ skiplist_empty(head)

\* C15: skiplist_del_init of a resident node leaves it pointing at itself at
\* all 16 levels with level 0, and no pointer of the header or of a
\* resident node refers to it.
C15_DeletedNodeIsAlone ==
    [][\A n \in SkipNodes :
          (Resident(n) /\ skiplist_del_init(n)) =>
              /\ level'[n] = 0
              /\ \A k \in Levels : next'[n][k] = n /\ prev'[n][k] = n
              /\ \A m \in SkipAll \ {n} :
                    (m = head \/ Resident(m)) =>
                        \A k \in Levels : next'[m][k] # n /\ prev'[m][k] # n]_vars

\* A delete took the top node away from between other nodes: the header's
\* level went down and nodes stay resident.
C15_Witness ==
    /\ lastop.op = "del"
    /\ level[head] < lastop.oldlevel
    /\ Len(inserted) >= 2

\* C16: skiplist_insert of a node whose selected level is above the
\* header's raises the header's level by one, gives the node that level and
\* links it right after the header there; any other insert leaves the
\* header's level alone and the node at its selected level.
C16_RaisesByOne ==
    [][\A n \in SkipNodes, ky \in SkipKeys, lv \in Levels :
          skiplist_insert(n, ky, lv) =>
              IF lv > level[head]
              THEN /\ level'[head] = level[head] + 1
                   /\ level'[n] = level[head] + 1
                   /\ next'[head][level'[head]] = n
                   /\ prev'[n][level'[head]] = head
              ELSE /\ level'[head] = level[head]
                   /\ level'[n] = lv]_vars

\* An insert raised the header's level from 1 to 2, beside a resident node.
C16_Witness ==
    /\ lastop.op = "insert"
    /\ lastop.oldlevel = 1
    /\ level[head] = 2
    /\ level[lastop.node] = 2
    /\ Len(inserted) >= 2

\* C17: the level of the header and of every resident node is in 0..15,
\* whatever levels the callers select in 0..15 and whatever seeds they
\* pass; randomLevel gives a level in 0..15 for every seed.
C17_LevelsInRange ==
    /\ level[head] \in Levels
    /\ \A n \in SkipNodes : Resident(n) => level[n] \in Levels
    /\ \A randseed \in Seeds :
          /\ randomLevel(randseed) \in Levels
          /\ \A entries \in 0..MaxEntries :
                randomLevelFor(entries, randseed) \in Levels

\* A node is inserted at level 15 into a list whose header is at level 15
\* already.
C17_Witness ==
    /\ lastop.op = "insert"
    /\ lastop.oldlevel = NUM_SKIPLIST_LEVEL - 1
    /\ level[lastop.node] = NUM_SKIPLIST_LEVEL - 1
    /\ Len(inserted) >= 2

\* C22: after any sequence of inserts and deletes, skiplist_empty(header)
\* is true exactly when no node is resident.
C22_EmptyIffNoResident == skiplist_empty(head) <=> ResidentSet = {}

\* A delete has taken the node of the top level away, the header's level
\* came down to 0, and the list is not empty: one node is resident.
C22_Witness ==
    /\ lastop.op = "del"
    /\ lastop.oldlevel = 2
    /\ level[head] = 0
    /\ Len(inserted) = 1
    /\ ~skiplist_empty(head)

\* The number of levels the comment above randomLevel gives for a list of
\* so many entries: 1 for 0-3, 2 for 4-7, 4 for 8-15, 7 for 15-31 (16-31
\* here: 15 is in the row before as well), 16 from 32 on.
DocumentedLevels(entries) ==
    IF entries <= 3 THEN 1
    ELSE IF entries <= 7 THEN 2
    ELSE IF entries <= 15 THEN 4
    ELSE IF entries <= 31 THEN 7
    ELSE 16

\* C23: the level randomLevel(entries, randseed) selects is below the number
\* of levels documented for the number of entries, for every seed.
C23_LevelWithinDocumented ==
    drawn.level # NoLevel => drawn.level < DocumentedLevels(drawn.entries)

\* The resident nodes of level k and above.
ResidentAtLevel(k) == {n \in ResidentSet : level[n] >= k}

\* Following next[k] from the header comes back to the header, past nodes
\* that are all different.
ChainCloses(k) ==
    LET c == Chain(k) IN
    /\ Len(c) <= Len(inserted)
    /\ \A i, j \in 1..Len(c) : i < j => c[i] # c[j]
    /\ next[IF c = <<>> THEN head ELSE c[Len(c)]][k] = head

\* prev[k] is the inverse of next[k] on the header and the chain's nodes.
PrevInverts(k) ==
    \A n \in {head} \cup Range(Chain(k)) :
        /\ prev[next[n][k]][k] = n
        /\ next[prev[n][k]][k] = n

\* C29: after every skip list operation, at every level k in 0..15,
\* following next[k] from the header returns to the header, prev[k] is the
\* exact inverse of next[k], the nodes of the level-k chain are exactly the
\* resident nodes of level k and above in non-decreasing key order, each
\* chain is a subsequence of the chain below, and the levels above the
\* header's level hold the header alone.
C29_ChainsAtEveryLevel ==
    \A k \in Levels :
        /\ ChainCloses(k)
        /\ PrevInverts(k)
        /\ Range(Chain(k)) = ResidentAtLevel(k)
        /\ \A i, j \in 1..Len(Chain(k)) :
              i < j => key[Chain(k)[i]] <= key[Chain(k)[j]]
        /\ k > 0 => Chain(k) = SelectSeq(Chain(k - 1),
                                         LAMBDA n : level[n] >= k)
        /\ k > level[head] => next[head][k] = head /\ prev[head][k] = head

\* After an insert three nodes are resident at the levels 0, 1 and 2, and
\* the node of level 2 stands between the two others in the level-0 chain.
C29_Witness ==
    /\ lastop.op = "insert"
    /\ Len(Chain(0)) = 3
    /\ Len(Chain(1)) = 2
    /\ Len(Chain(2)) = 1
    /\ Chain(0)[2] = Chain(2)[1]

\* The level-0 chain of a list of up to MaxPolicyNodes nodes.
Level0 == ChainFrom(next[head][0], 0, MaxPolicyNodes + 1)

\* The sequence c with node n of key ky put behind the nodes whose keys are
\* at most ky: what the level-0 chain is to be after an insert, whatever
\* the level of n and of the nodes of c.
Placed(c, n, ky) ==
    LET m == Cardinality({i \in 1..Len(c) : key[c[i]] <= ky})
    IN SubSeq(c, 1, m) \o <<n>> \o SubSeq(c, m + 1, Len(c))

\* The resident nodes put one after the other, in the order of their
\* insertion, each behind the nodes whose keys are not greater: a sequence
\* that the inserts and deletes and their keys decide, and no level.
RECURSIVE KeyOrder(_)
KeyOrder(h) ==
    IF h = <<>> THEN <<>>
    ELSE Placed(KeyOrder(SubSeq(h, 1, Len(h) - 1)), h[Len(h)],
                key[h[Len(h)]])

\* C30: the level-0 order does not depend on the levels chosen: whichever
\* of the three level policies the inserts used and whatever the seeds or
\* the levels selected, the level-0 chain is the sequence that the inserts
\* and deletes and their keys decide; so the same inserts and deletes give
\* the same level-0 sequence of keys, and the same order among equal keys,
\* under every policy.
C30_Level0WhateverTheLevels == Level0 = KeyOrder(inserted)

\* Four nodes are resident; the fourth insert gave its node level 1 in a
\* list whose other nodes are at level 0, and the node stands second in
\* the level-0 chain, between nodes of level 0.
C30_Witness ==
    /\ lastop.op = "insert"
    /\ Len(inserted) = 4
    /\ lastop.oldlevel = 0
    /\ level[lastop.node] = 1
    /\ Len(Level0) = 4
    /\ Level0[2] = lastop.node

\* C31: skiplist_insert of a detached node and skiplist_del_init of that
\* node right after it restore the list: the header's level and every next
\* and prev pointer of the header and of the other resident nodes are what
\* they were before the insert, whatever level the node was given.
C31_InsertThenDeleteRestores ==
    [][\A n \in SkipNodes :
          (lastop.op = "insert" /\ lastop.node = n /\ skiplist_del_init(n)) =>
              /\ level'[head] = lastop.oldlevel
              /\ \A m \in SkipAll \ {n} :
                    (m = head \/ Resident(m)) =>
                        /\ next'[m] = lastop.was.next[m]
                        /\ prev'[m] = lastop.was.prev[m]]_vars

\* The node that an insert put at level 2, above a header of level 1, was
\* deleted by the next call, beside two resident nodes, and the header is
\* at level 1 again.
C31_Witness ==
    /\ lastop.op = "del"
    /\ lastop.undoes
    /\ lastop.oldlevel = 2
    /\ level[head] = 1
    /\ Len(inserted) = 2

\* C33: skiplist_del_init of a node that is detached, pointing at itself
\* at all levels with level 0, leaves the list as it is: the header's level
\* and all next and prev pointers of the header and of every resident node
\* keep their values.
C33_DeleteDetachedKeeps ==
    [][\A n \in SkipNodes :
          (/\ ~Resident(n)
           /\ level[n] = 0
           /\ \A k \in Levels : next[n][k] = n /\ prev[n][k] = n
           /\ skiplist_del_init(n)) =>
              /\ level'[head] = level[head]
              /\ \A m \in SkipAll \ {n} :
                    (m = head \/ Resident(m)) =>
                        next'[m] = next[m] /\ prev'[m] = prev[m]
              /\ inserted' = inserted]_vars

\* A node that was not resident was deleted while two nodes are resident
\* and the header is at level 1.
C33_Witness ==
    /\ lastop.op = "del"
    /\ ~lastop.resident
    /\ Len(inserted) = 2
    /\ level[head] = 1
    /\ level[lastop.node] = 0

\* C32: the search loop of skiplist_insert terminates for every value of
\* the key type on a well-formed list, the largest value, which is the
\* header's own key, among them: no call of skiplist_insert stays in its
\* search loop for ever.
C32_SearchTerminates == ~spinning

-----------------------------------------------------------------------------
(* Properties of the sparse radix tree                                     *)

\* The indices looked up: those of the tree's range and as many beyond it,
\* and those the callers hold an item for.
Indices(T) == 0..(2 * Pow2(T.shift * T.height)) \cup DOMAIN T.held

\* What the callers expect of lookup: the item assign reported for the
\* index, if rm has not been called for it since.
Expected(T, i) == IF i \in DOMAIN T.held THEN T.held[i].item ELSE NULL

\* C2: after any sequence of enter and delete calls, sradix_tree_lookup
\* returns for every index the item that was assigned to it and not deleted
\* since, and NULL for every index that holds no item, those at or beyond
\* 2^(shift*height) and those of an empty tree among them.
C2_LookupExact ==
    \A i \in Indices(tree) : sradix_tree_lookup(tree, i) = Expected(tree, i)

\* C3: a call of sradix_tree_delete_from_leaf for a stored item at index i
\* leaves lookup(i) not found and the lookup of every other stored index as
\* it was before the call.
C3_DeleteRemovesOne ==
    [][\A index \in DOMAIN tree.held :
          Delete(index) =>
             /\ sradix_tree_lookup(tree', index) = NULL
             /\ \A x \in (DOMAIN tree.held) \ {index} :
                   sradix_tree_lookup(tree', x) = sradix_tree_lookup(tree, x)]_vars

\* The smallest H >= 1 such that every index of S is below 2^(shift*H).
RECURSIVE MinHeight(_, _, _)
MinHeight(T, S, H) ==
    IF \A i \in S : i < Pow2(T.shift * H) THEN H ELSE MinHeight(T, S, H + 1)

\* C4: after every delete of a stored item, root.height is the smallest
\* H >= 1 such that every remaining stored index is below 2^(shift*H).
C4_HeightMinimal ==
    tree.op = "delete" => tree.height = MinHeight(tree, DOMAIN tree.held, 1)

\* The nodes of the tree: those met from the root along the stores.
RECURSIVE Below(_, _)
Below(T, S) ==
    LET S2 == S \cup {x \in Pool : \E n \in S :
                        /\ T.mem[n].height > 1
                        /\ \E k \in Slots(T) : T.mem[n].stores[k] = x}
    IN IF S2 = S THEN S ELSE Below(T, S2)

TreeNodes(T) == Below(T, {T.rnode} \cap Pool)

\* A node is completely full: a leaf when count = stores_size, a node above
\* the leaves when fulls = stores_size.
CompletelyFull(T, n) ==
    IF T.mem[n].height = 1 THEN T.mem[n].count = stores_size(T)
    ELSE T.mem[n].fulls = stores_size(T)

CountRight(T, n) ==
    T.mem[n].count = Cardinality({k \in Slots(T) : T.mem[n].stores[k] # NULL})

FullsRight(T, n) ==
    T.mem[n].height > 1 =>
        T.mem[n].fulls =
           Cardinality({k \in Slots(T) :
                           /\ T.mem[n].stores[k] \in Pool
                           /\ CompletelyFull(T, T.mem[n].stores[k])})

\* C7: between calls, every node of the tree has count equal to the number
\* of its stores that are not NULL, and every node above the leaves has
\* fulls equal to the number of its children that are completely full.
C7_CountsAndFulls ==
    \A n \in TreeNodes(tree) : CountRight(tree, n) /\ FullsRight(tree, n)

\* The lowest index that holds no item.
RECURSIVE LowestFree(_, _)
LowestFree(T, i) == IF i \in DOMAIN T.held THEN LowestFree(T, i + 1) ELSE i

\* C8: after every enter and every delete call, root.min is at most the
\* lowest index that holds no item.
C8_MinNotAbove == tree.min <= LowestFree(tree, 0)

\* The parent and height relations: a child's parent is the node whose
\* store holds it and its height is one less, the root node has the
\* height of the tree.
LinksRight(T) ==
    /\ T.rnode # NULL => T.mem[T.rnode].height = T.height
    /\ \A n \in TreeNodes(T) :
           T.mem[n].height > 1 =>
              \A k \in Slots(T) :
                 LET c == T.mem[n].stores[k]
                 IN c # NULL =>
                       /\ c \in Pool
                       /\ T.mem[c].parent = n
                       /\ T.mem[c].height = T.mem[n].height - 1

\* C9: when alloc returns NULL during sradix_tree_enter, enter returns
\* -ENOMEM and leaves the tree consistent: the count, fulls, parent and
\* height relations hold for every node, and every item stored so far is
\* returned by lookup at its index.
C9_NoMemoryLeavesTreeWhole ==
    tree.op = "enter" /\ tree.nomem =>
        /\ tree.ret = ENOMEM
        /\ \A n \in TreeNodes(tree) : CountRight(tree, n) /\ FullsRight(tree, n)
        /\ LinksRight(tree)
        /\ \A i \in DOMAIN tree.held :
              sradix_tree_lookup(tree, i) = tree.held[i].item

\* Every index of the tree's range holds an item.
AllHeld(T) ==
    /\ T.rnode # NULL
    /\ \A i \in 0..(Pow2(T.shift * T.height) - 1) : i \in DOMAIN T.held

\* C10: whenever an enter call leaves every index below 2^(shift*height)
\* holding an item, root.min is 2^(shift*height) when the call returns, and
\* the next enter call raises the height by exactly one and stores its
\* first item at index 2^(shift*old height).
C10_FullTreeGrows ==
    /\ [](tree.op = "enter" /\ AllHeld(tree) =>
             tree.min = Pow2(tree.shift * tree.height))
    /\ [][\A item \in Batches, reuse \in BOOLEAN, failAt \in 0..MaxFailAt :
             (tree.op = "enter" /\ AllHeld(tree)
                 /\ Enter(item, reuse, failAt) /\ tree'.ret = 0) =>
                /\ tree'.height = tree.height + 1
                /\ Pow2(tree.shift * tree.height) \in DOMAIN tree'.held
                /\ tree'.held[Pow2(tree.shift * tree.height)].item = item[1]]_vars

\* C11: an iteration with sradix_tree_next that begins at (NULL, 0) and goes
\* on from the leaf and the index of the item returned last returns stored
\* items only, each once and in ascending order of index, and when it
\* returns NULL it has returned every stored item.
Rising(q) == \A i, j \in DOMAIN q : i < j => q[i] < q[j]

C11_NextYieldsAll ==
    /\ walk.at \notin {"lost", "twice"}
    /\ Rising(walk.got)
    /\ walk.at = "end" => Range(walk.got) = DOMAIN tree.held

\* The number of items the callers hold in the tree.
NumHeld(T) == Cardinality(DOMAIN T.held)

Fired(T, fn) == {i \in DOMAIN T.calls : T.calls[i].fn = fn}

\* enter called assign once for every index that holds an item since the
\* call and for no other, with the leaf node that holds the item in the
\* store of that index, where lookup finds it.
AssignedOnce(T, U) ==
    /\ \A x \in (DOMAIN U.held) \ (DOMAIN T.held) :
          Cardinality({i \in Fired(U, "assign") : U.calls[i].at = x}) = 1
    /\ \A i \in Fired(U, "assign") :
          /\ U.calls[i].at \in (DOMAIN U.held) \ (DOMAIN T.held)
          /\ U.calls[i].node \in U.live
          /\ U.mem[U.calls[i].node].height = 1
          /\ U.mem[U.calls[i].node].stores[AndMask(U, U.calls[i].at)]
                = U.calls[i].what
          /\ sradix_tree_lookup(U, U.calls[i].at) = U.calls[i].what

\* enter called extend once for every node it attached to a parent: every
\* node it allocated but the first node of an empty tree.
ExtendedOnce(T, U) ==
    /\ Cardinality(Fired(U, "extend")) =
          Cardinality(U.live) - Cardinality(T.live)
             - (IF T.rnode = NULL /\ U.rnode # NULL THEN 1 ELSE 0)
    /\ \A i \in Fired(U, "extend") :
          /\ U.mem[U.calls[i].what].parent = U.calls[i].node
          /\ U.mem[U.calls[i].node].stores[U.calls[i].at] = U.calls[i].what
          /\ \A j \in Fired(U, "extend") :
                U.calls[j].what = U.calls[i].what => j = i

\* delete called rm once, for the store of index in a leaf node.
RemovedOnce(U, index) ==
    /\ Cardinality(Fired(U, "rm")) = 1
    /\ \A i \in Fired(U, "rm") :
          /\ U.calls[i].at = AndMask(U, index)
          /\ U.mem[U.calls[i].node].height = 1

\* C19: a call of enter fires assign exactly once for each item it stores,
\* with the leaf node and the index at which lookup then finds the item,
\* and extend exactly once for each child node it attaches to a parent; a
\* call of delete for a stored item fires rm exactly once, for the store of
\* the leaf that held the item; and no call fires another callback.
C19_CallbacksOnce ==
    /\ [][\A item \in Batches, reuse \in BOOLEAN, failAt \in 0..MaxFailAt :
             Enter(item, reuse, failAt) =>
                /\ AssignedOnce(tree, tree')
                /\ ExtendedOnce(tree, tree')
                /\ Fired(tree', "rm") = {}]_vars
    /\ [][\A index \in DOMAIN tree.held :
             Delete(index) =>
                /\ RemovedOnce(tree', index)
                /\ Fired(tree', "assign") = {}
                /\ Fired(tree', "extend") = {}]_vars

\* enter calls sradix_tree_extend(root, root->min) in its first round.
ExtendsFirst(T) ==
    \/ T.rnode = NULL
    \/ Shr(T.min, T.shift * T.height) # 0
    \/ sradix_node_full(T, T.rnode)

\* From node down the stores 0, n nodes are roots that one call added on top
\* of old: each has count 1, its height one more than that of the root below
\* it, which is in its store 0 and has it as parent.
RECURSIVE Wraps(_, _, _, _, _)
Wraps(X, node, n, old, h) ==
    IF n = 0 THEN node = old
    ELSE /\ node \in X.live
         /\ X.mem[node].count = 1
         /\ X.mem[node].height = h
         /\ X.mem[node].stores[0] \in X.live
         /\ X.mem[X.mem[node].stores[0]].parent = node
         /\ Wraps(X, X.mem[node].stores[0], n - 1, old, h - 1)

\* What sradix_tree_extend(root, index) promises, T being the tree before
\* and X the tree after a call that returned 0.
ExtendKept(T, X, index) ==
    /\ index < Pow2(X.shift * X.height)
    /\ X.rnode \in X.live
    /\ IF T.rnode = NULL
       THEN /\ X.mem[X.rnode].height >= 1
            /\ Wraps(X, X.rnode, X.height - 1,
                     CHOOSE n \in X.live : X.mem[n].height = 1, X.height)
       ELSE /\ X.height >= T.height
            /\ Wraps(X, X.rnode, X.height - T.height, T.rnode, X.height)
    /\ Cardinality(Fired(X, "extend")) =
          X.height - (IF T.rnode = NULL THEN 1 ELSE T.height)
    /\ \A x \in DOMAIN T.held :
          sradix_tree_lookup(X, x) = sradix_tree_lookup(T, x)

\* C20: where enter calls sradix_tree_extend(root, root->min) and the
\* allocations succeed, the call returns with min < 2^(shift*height), every
\* root it added raised the height by one and has count 1, the root before
\* it in store 0 and that root's parent set to it, and every stored index
\* looks up as before the call.
C20_ExtendKeeps ==
    \A reuse \in BOOLEAN, failAt \in 0..MaxFailAt :
       (Running /\ ExtendsFirst(tree)
           /\ sradix_tree_extend(Called(tree), tree.min, reuse, failAt).ret = 0) =>
          ExtendKept(Called(tree),
                     sradix_tree_extend(Called(tree), tree.min, reuse, failAt),
                     tree.min)

\* An enter has put the fifth item into a full tree of height 2 with two
\* stores per node: its first callback is extend for the new root with the
\* old root in store 0.
C20_Witness ==
    /\ tree.op = "enter" /\ tree.ret = 0
    /\ tree.shift = 1 /\ tree.height = 3
    /\ NumHeld(tree) = 5
    /\ Len(tree.calls) >= 2
    /\ tree.calls[1] = [fn |-> "extend", node |-> tree.rnode, at |-> 0,
                        what |-> tree.mem[tree.rnode].stores[0]]
    /\ tree.calls[2].fn = "extend" /\ tree.calls[2].node = tree.rnode
    /\ tree.mem[tree.mem[tree.rnode].stores[0]].parent = tree.rnode

\* The last call returned: it did not stop the kernel or hang.
Returned(T) == T.fault \cap {"bug", "wild", "spin"} = {}

\* C21: after init and after every call of enter and delete that returned,
\* root.height is 0 exactly when root.rnode is NULL, and is the height of
\* the root node otherwise.
C21_HeightZeroIffEmpty ==
    Returned(tree) =>
       /\ tree.height = 0 <=> tree.rnode = NULL
       /\ tree.rnode \in Pool => tree.height = tree.mem[tree.rnode].height

\* The indices that the last call reported to assign, in the order of the
\* calls, which is the order of the batch.
AssignedAt(T) ==
    [i \in 1..Len(SelectSeq(T.calls, LAMBDA e : e.fn = "assign")) |->
        SelectSeq(T.calls, LAMBDA e : e.fn = "assign")[i].at]

\* The lowest index that is not in the set S.
RECURSIVE LowestNotIn(_, _)
LowestNotIn(S, i) == IF i \in S THEN LowestNotIn(S, i + 1) ELSE i

\* Every index of q is the lowest that is not in S nor earlier in q.
RECURSIVE LowestFirst(_, _)
LowestFirst(S, q) ==
    \/ q = <<>>
    \/ /\ Head(q) = LowestNotIn(S, 0)
       /\ LowestFirst(S \cup {Head(q)}, Tail(q))

\* C24: every item of an enter batch is stored at the lowest index that
\* holds no item at that moment, so that the indices of a batch rise in
\* batch order.
C24_LowestFreeFirst ==
    [][\A item \in Batches, reuse \in BOOLEAN, failAt \in 0..MaxFailAt :
          Enter(item, reuse, failAt) =>
             /\ LowestFirst(DOMAIN tree.held, AssignedAt(tree'))
             /\ Rising(AssignedAt(tree'))]_vars

\* C25: with an allocator that never fails, every call of enter returns 0
\* with as many more items stored as the batch had, and none of its redo
\* rounds places no item.
C25_EnterStoresAll ==
    [][\A item \in Batches, reuse \in BOOLEAN :
          EnterNoFail(item, reuse) =>
             /\ Returned(tree')
             /\ tree'.ret = 0
             /\ NumHeld(tree') = NumHeld(tree) + Len(item)
             /\ tree'.zero = 0]_vars

\* C26: after every call that returned, the root node's parent is NULL,
\* every other node of the tree has as parent the node of the tree whose
\* store holds it, whose height is one more, and no node of the tree has a
\* parent pointer to a node that was freed.
C26_ParentsRight ==
    Returned(tree) =>
       /\ tree.rnode \in Pool => tree.mem[tree.rnode].parent = NULL
       /\ \A n \in TreeNodes(tree) :
             /\ tree.mem[n].parent \notin tree.freed
             /\ n \notin tree.stale
             /\ tree.mem[n].height > 1 =>
                   \A k \in Slots(tree) :
                      tree.mem[n].stores[k] # NULL =>
                         /\ tree.mem[n].stores[k] \in Pool
                         /\ tree.mem[tree.mem[n].stores[k]].parent = n
                         /\ tree.mem[n].height
                               = tree.mem[tree.mem[n].stores[k]].height + 1

\* C27: no call frees a node twice or frees what alloc did not give, none
\* reads or writes a node after it was freed, no freed node is in the tree,
\* after a delete the live nodes are the nodes of the tree (the emptied
\* nodes and the roots that shrink removed are freed, and no other), and
\* once all items are deleted every node is freed.
C27_FreedOnceAndGone ==
    Returned(tree) =>
       /\ tree.fault \cap {"uaf", "uafw", "refree"} = {}
       /\ tree.freed \cap tree.live = {}
       /\ TreeNodes(tree) \cap tree.freed = {}
       /\ tree.op = "delete" => tree.live = TreeNodes(tree)
       /\ (tree.op = "delete" /\ DOMAIN tree.held = {}) => tree.live = {}

\* The indices past `after` at which an item is stored that iter accepts.
AcceptedAfter(T, iter, after) ==
    {x \in DOMAIN T.held : x > after /\ T.held[x].item \in iter.acc}

\* What a call with the predicate iter is to return for the position after.
NextAccepted(T, r, iter, after) ==
    IF AcceptedAfter(T, iter, after) = {} THEN r.val = NULL
    ELSE /\ r.val = T.held[Least(AcceptedAfter(T, iter, after))].item
         /\ r.node = T.held[Least(AcceptedAfter(T, iter, after))].node
         /\ r.offset = AndMask(T, Least(AcceptedAfter(T, iter, after)))

\* C28: with a predicate supplied, sradix_tree_next returns the stored item
\* of the lowest index after the given position that the predicate accepts,
\* never an item the predicate rejects, and NULL only when no accepted item
\* is stored after that position.
C28_NextLowestAccepted ==
    [][/\ \A iter \in Iters, junk \in BOOLEAN :
             First(iter, junk) =>
                NextAccepted(tree,
                             sradix_tree_next(tree, NULL, 0, iter, junk),
                             iter, 0 - 1)
       /\ \A junk \in BOOLEAN :
             (walk.iter.on /\ Step(junk)) =>
                NextAccepted(tree,
                             sradix_tree_next(tree, walk.node, walk.index,
                                              walk.iter, junk),
                             walk.iter, walk.index)]_vars

-----------------------------------------------------------------------------
(* Properties of the upgradeable read/write lock                           *)

\* The mode a thread holds the lock in, from the return of the call that
\* took it to the call that gives it up or changes it.
HoldsWrite(t) == pc[t] = "W"

HoldsRead(t) == pc[t] = "R"

HoldsUp(t) == pc[t] \in {"U", "upgrade_write"}

\* C12: at most one thread holds the lock in write mode, none holds read
\* mode while one holds write mode, and at most one is in upgradeable or
\* write mode; readers may go on reading beside an upgradeable holder.
C12_ModesExclude ==
    /\ Cardinality({t \in Threads : HoldsWrite(t)}) <= 1
    /\ (\E t \in Threads : HoldsWrite(t)) => ~(\E u \in Threads : HoldsRead(u))
    /\ Cardinality({t \in Threads : HoldsWrite(t) \/ HoldsUp(t)}) <= 1
    /\ \A t \in Threads : HoldsWrite(t) => rwlock.writer = t /\ lock = t
    /\ \A t \in Threads : HoldsRead(t) => t \in rwlock.readers
    /\ \A t \in Threads : HoldsUp(t) => lock = t

\* A thread reads while another holds the lock in upgradeable mode, and a
\* third waits for the spinlock to write.
C12_Witness ==
    \E t, u, v \in Threads :
        /\ HoldsUp(t) /\ HoldsRead(u) /\ pc[v] = "wlock_lock"

\* A thread waits for the write lock, in urw_wlock or in urw_upgrade.
WaitsWrite(t) == pc[t] \in {"wlock_write", "upgrade_write"}

\* C13: while a thread waits for the write lock or holds it, no other
\* thread becomes a reader; and a thread that waits for the write lock
\* gets it, the readers letting go in the end.
C13_WritersFavoured ==
    /\ [][\A t \in Threads :
             (WaitsWrite(t) \/ HoldsWrite(t))
                 => (rwlock'.readers \ rwlock.readers) \subseteq {t}]_vars
    /\ \A t \in Threads : WaitsWrite(t) ~> HoldsWrite(t)

\* A thread waits for the write lock while another reads and a third has
\* called urw_rlock.
C13_Witness ==
    \E t, u, v \in Threads :
        /\ WaitsWrite(t) /\ HoldsRead(u) /\ pc[v] = "rlock_lock"

\* A thread is between its urw_ulock and the end of its urw_upgrade or
\* urw_udowngrade, or between the two steps on the rwlock in urw_wdowngrade.
InWindow(t) ==
    pc[t] \in {"U", "upgrade_write", "udowngrade_unlock", "wdowngrade_read"}

\* C14: while a thread is at a change of mode, no other thread holds or
\* takes write mode or upgradeable mode.
C14_NoRaceWindow ==
    [][\A t \in Threads :
          InWindow(t) =>
              \A u \in Threads \ {t} :
                  /\ ~(HoldsWrite(u) \/ HoldsUp(u))
                  /\ ~(HoldsWrite(u) \/ HoldsUp(u))']_vars

\* A thread is between the steps of urw_wdowngrade while another has called
\* urw_wlock and a third urw_ulock.
C14_Witness ==
    \E t, u, v \in Threads :
        /\ pc[t] = "wdowngrade_read"
        /\ pc[u] = "wlock_lock"
        /\ pc[v] = "ulock_lock"

\* Some thread that is in a call or holds the lock can take a step.
SomeoneMoves ==
    \E t \in Threads :
        pc[t] # "none" /\ ENABLED (TakesSpin(t) \/ LetsGo(t) \/ GoesOn(t))

\* C34: with the threads running sequences of calls on the lock, the
\* system never deadlocks (while a thread is in a call or holds the lock,
\* one of them can take a step), and under fair scheduling every attempt to
\* take the lock succeeds: a thread that has called urw_wlock or
\* urw_upgrade comes to hold write mode, one that has called urw_rlock
\* read mode, and one that has called urw_ulock upgradeable mode.
C34_NoDeadlockNoStarvation ==
    /\ []((\E t \in Threads : pc[t] # "none") => SomeoneMoves)
    /\ \A t \in Threads :
          /\ pc[t] \in {"wlock_lock", "wlock_write", "upgrade_write"}
                 ~> HoldsWrite(t)
          /\ pc[t] \in {"rlock_lock", "rlock_read"} ~> HoldsRead(t)
          /\ pc[t] = "ulock_lock" ~> pc[t] = "U"

\* A thread waits in urw_upgrade for a reader to let go while a third
\* thread waits in urw_wlock for the spinlock.
C34_Witness ==
    \E t, u, v \in Threads :
        /\ pc[t] = "upgrade_write" /\ HoldsRead(u) /\ pc[v] = "wlock_lock"

=============================================================================
